---- MODULE Spec2Model ----
(***************************************************************************)
(* Model of scripts/setup-worktree.py: one run of main() driving a         *)
(* WorktreeManager through worktree creation, env-file copy, dependency    *)
(* installation, verification and the summary.                             *)
(*                                                                         *)
(* Text (file contents, keys, values) is a sequence of one-character       *)
(* strings, so that str.replace, str.strip and str.split are computed on   *)
(* characters as Python computes them.                                     *)
(***************************************************************************)
EXTENDS Integers, Sequences, FiniteSets, TLC

VARIABLES
    pc,                   \* position of the run in main() and its callees
    exit_code,            \* -1 while running, else the process exit status
    interrupted,          \* a KeyboardInterrupt was delivered
    skip_install,         \* args.skip_install
    skip_verify,          \* args.skip_verify
    template_vars,        \* dict of template variables, in insertion order
    path_exists,          \* worktree_path.exists()
    branches,             \* local branches of the repository
    branch_found,         \* what _branch_exists returned
    wt_files,             \* files present in the worktree directory
    manifest,             \* what verify_setup found package.json to hold
    src_content,          \* text of an env file of the main repository
    i,                    \* index into env_files of the copy loop
    io,                   \* how the latest copy iteration ended
    content,              \* local `content` of copy_env_files
    dest,                 \* env files written into the worktree: name -> text
    copied_files,         \* local `copied_files` of copy_env_files
    variables,            \* dict returned by the latest _validate_env_file
    warnings,             \* per-line warnings of the latest _validate_env_file
    package_manager,      \* result of _detect_package_manager
    install_result,       \* result of install_dependencies
    results,              \* local `results` of verify_setup
    verification_results, \* main's verification_results
    trace                 \* commands run, files written, stages entered

vars == <<pc, exit_code, interrupted, skip_install, skip_verify, template_vars,
          path_exists, branches, branch_found, wt_files, manifest, src_content, i, io,
          content, dest, copied_files, variables, warnings, package_manager,
          install_result, results, verification_results, trace>>

-----------------------------------------------------------------------------
(* Text helpers: Python's str methods on character sequences.              *)

Whitespace == {" ", "\t", "\n", "\r"}

RECURSIVE LStripChars(_, _)
LStripChars(s, cs) ==
    IF s # <<>> /\ s[1] \in cs THEN LStripChars(Tail(s), cs) ELSE s

RECURSIVE RStripChars(_, _)
RStripChars(s, cs) ==
    IF s # <<>> /\ s[Len(s)] \in cs
    THEN RStripChars(SubSeq(s, 1, Len(s) - 1), cs)
    ELSE s

\* str.strip(chars): every leading and every trailing character of cs goes.
StripChars(s, cs) == RStripChars(LStripChars(s, cs), cs)

\* str.strip()
Strip(s) == StripChars(s, Whitespace)

\* str.replace(pat, val) for a non-empty pat: left to right, non-overlapping.
RECURSIVE Replace(_, _, _)
Replace(s, pat, val) ==
    IF Len(s) < Len(pat) THEN s
    ELSE IF SubSeq(s, 1, Len(pat)) = pat
         THEN val \o Replace(SubSeq(s, Len(pat) + 1, Len(s)), pat, val)
         ELSE <<s[1]>> \o Replace(Tail(s), pat, val)

\* Index of the first occurrence of character c in s, 0 when there is none.
RECURSIVE IndexOf(_, _)
IndexOf(s, c) ==
    IF s = <<>> THEN 0
    ELSE IF s[1] = c THEN 1
    ELSE LET r == IndexOf(Tail(s), c) IN IF r = 0 THEN 0 ELSE r + 1

\* The lines a text file yields when iterated.
RECURSIVE SplitLines(_)
SplitLines(s) ==
    IF s = <<>> THEN <<>>
    ELSE LET n == IndexOf(s, "\n") IN
         IF n = 0 THEN <<s>>
         ELSE <<SubSeq(s, 1, n)>> \o SplitLines(SubSeq(s, n + 1, Len(s)))

EmptyDict == <<>>

-----------------------------------------------------------------------------
(* Program constants.                                                      *)

\* self.env_files
EnvFiles == <<".env", ".env.local", ".env.development", ".env.production",
              ".env.test", ".env.example">>

\* args.branch_name
Branch == "feature/x"

\* What package.json may hold when verify_setup opens it, by what
\* verify_setup makes of it:
\*   invalid_json  json.load raises json.JSONDecodeError
\*   undecodable   the bytes are not text in the default encoding: the read
\*                 inside json.load raises UnicodeDecodeError
\*   not_object    valid JSON that is no object (a list): .get raises
\*                 AttributeError
\*   no_lint       an object whose "scripts" has no "lint"
\*   lint          an object whose "scripts" has "lint"
ManifestKinds == {"invalid_json", "undecodable", "not_object", "no_lint", "lint"}

\* Files of a fresh checkout that the script looks at.
CheckoutFiles == {"package-lock.json", "yarn.lock", "pnpm-lock.yaml",
                  "package.json", "tsconfig.json"}

\* How a subprocess.run(..., check=True) of a tool other than git can end:
\* exit status 0, CalledProcessError (non-zero exit), or OSError when the
\* executable cannot be started.  git itself was started by the constructor.
ToolOutcomes == {"ok", "fail", "oserror"}

\* An entry of the trace: a stage entered, a file written, a function
\* returning `arg`.
Ev(kind, name, arg) == [kind |-> kind, name |-> name, arg |-> arg, status |-> ""]

\* An entry of the trace: subprocess.run of `name` with working directory
\* `cwd`, ended as `status` says.
Cmd(name, cwd, status) == [kind |-> "cmd", name |-> name, arg |-> cwd, status |-> status]

\* Mutant of InstallCommand: npm whatever was detected.
InstallCommandNpm(manager) == "npm install"

\* [package_manager, "install"]
InstallCommand(manager) ==
    CASE manager = "npm" -> "npm install"
      [] manager = "yarn" -> "yarn install"
      [] manager = "pnpm" -> "pnpm install"

-----------------------------------------------------------------------------
(* Pure functions of WorktreeManager.                                      *)

\* value.strip().strip('"').strip("'")
StripQuotes(value) == StripChars(StripChars(Strip(value), {"\""}), {"'"})

\* One iteration of the loop of _validate_env_file over a line.
ValidateLine(acc, rawline) ==
    LET line == Strip(rawline) IN
    IF line = <<>> \/ line[1] = "#" THEN acc
    ELSE LET n == IndexOf(line, "=") IN
         IF n # 0
         THEN LET key   == Strip(SubSeq(line, 1, n - 1))
                  value == StripQuotes(SubSeq(line, n + 1, Len(line)))
              IN [acc EXCEPT !.variables = (key :> value) @@ acc.variables]
         ELSE [acc EXCEPT !.warnings = acc.warnings + 1]

RECURSIVE ValidateLines(_, _)
ValidateLines(acc, lines) ==
    IF lines = <<>> THEN acc
    ELSE ValidateLines(ValidateLine(acc, Head(lines)), Tail(lines))

\* _validate_env_file on a readable file holding `text`.
ValidateEnvFile(text) ==
    ValidateLines([variables |-> EmptyDict, warnings |-> 0], SplitLines(text))

\* f"{{{{ {key} }}}}"
Placeholder(key) == <<"{", "{", " ">> \o key \o <<" ", "}", "}">>

\* _substitute_template_variables: one str.replace per item, in dict order,
\* each on the result of the one before.
RECURSIVE SubstituteTemplateVariables(_, _)
SubstituteTemplateVariables(text, substitutions) ==
    IF substitutions = <<>> THEN text
    ELSE SubstituteTemplateVariables(
             Replace(text, Placeholder(Head(substitutions).key),
                     Head(substitutions).value),
             Tail(substitutions))

\* Mutant of DetectPackageManager: the manifest is looked at first.
DetectManifestFirst(files) ==
    IF "package.json" \in files THEN "npm"
    ELSE IF "package-lock.json" \in files THEN "npm"
    ELSE IF "yarn.lock" \in files THEN "yarn"
    ELSE IF "pnpm-lock.yaml" \in files THEN "pnpm"
    ELSE "none"

\* _detect_package_manager
DetectPackageManager(files) ==
    IF "package-lock.json" \in files THEN "npm"
    ELSE IF "yarn.lock" \in files THEN "yarn"
    ELSE IF "pnpm-lock.yaml" \in files THEN "pnpm"
    ELSE IF "package.json" \in files THEN "npm"
    ELSE "none"

-----------------------------------------------------------------------------
(* The run of main().                                                      *)

\* Inputs of the run specification.
MainContents == { <<"K", "=", "{", "{", " ", "A", " ", "}", "}", "\n">> }

MainTemplateVars == { <<>>, <<[key |-> <<"A">>, value |-> <<"x">>]>> }

Init ==
    /\ pc = "locate"
    /\ exit_code = -1
    /\ interrupted = FALSE
    /\ skip_install \in BOOLEAN
    /\ skip_verify \in BOOLEAN
    /\ template_vars \in MainTemplateVars
    /\ path_exists \in BOOLEAN
    /\ branches \in {{}, {Branch}}
    /\ branch_found = "unset"
    /\ wt_files = {}
    /\ manifest = "unread"
    /\ src_content \in MainContents
    /\ i = 0
    /\ io = "none"
    /\ content = <<>>
    /\ dest = EmptyDict
    /\ copied_files = <<>>
    /\ variables = EmptyDict
    /\ warnings = 0
    /\ package_manager = "unset"
    /\ install_result = "unset"
    /\ results = EmptyDict
    /\ verification_results = EmptyDict
    /\ trace = <<>>

\* sys.exit(1), from main or from its handlers.
Exit1 == pc' = "done" /\ exit_code' = 1

\* WorktreeManager(): _get_main_repo_path runs git rev-parse and exits with
\* status 1 when it fails.
Locate ==
    /\ pc = "locate"
    /\ \E ok \in BOOLEAN :
        /\ trace' = trace \o <<Ev("stage", "Locator", ""),
                               Cmd("git rev-parse --show-toplevel", ".",
                                   IF ok THEN "ok" ELSE "fail")>>
        /\ IF ok THEN pc' = "create" /\ exit_code' = exit_code ELSE Exit1
    /\ UNCHANGED <<interrupted, skip_install, skip_verify, template_vars,
                   path_exists, branches, branch_found, wt_files, manifest,
                   src_content, i, io, content, dest, copied_files, variables,
                   warnings, package_manager, install_result, results,
                   verification_results>>

\* Mutant of RefusesPath: the existence check is left out.
RefusesPathNever(exists) == FALSE

\* if worktree_path.exists(): ... return False
RefusesPath(exists) == exists

\* create_worktree up to its try block: an existing path returns False, and
\* main exits with status 1.
CreateWorktree ==
    /\ pc = "create"
    /\ IF RefusesPath(path_exists)
       THEN /\ trace' = trace \o <<Ev("stage", "Creator", ""),
                                   Ev("return", "create_worktree", "False")>>
            /\ Exit1
       ELSE /\ trace' = Append(trace, Ev("stage", "Creator", ""))
            /\ pc' = "branch_check"
            /\ exit_code' = exit_code
    /\ UNCHANGED <<interrupted, skip_install, skip_verify, template_vars,
                   path_exists, branches, branch_found, wt_files, manifest,
                   src_content, i, io, content, dest, copied_files, variables,
                   warnings, package_manager, install_result, results,
                   verification_results>>

\* _branch_exists: git show-ref --verify exits with status 0 iff the ref is
\* there; a CalledProcessError becomes False.
BranchExists ==
    /\ pc = "branch_check"
    /\ trace' = Append(trace, Cmd("git show-ref --verify --quiet", ".",
                                   IF Branch \in branches THEN "ok" ELSE "fail"))
    /\ branch_found' = IF Branch \in branches THEN "True" ELSE "False"
    /\ pc' = "worktree_add"
    /\ UNCHANGED <<exit_code, interrupted, skip_install, skip_verify,
                   template_vars, path_exists, branches, wt_files, manifest,
                   src_content, i, io, content, dest, copied_files, variables,
                   warnings, package_manager, install_result, results,
                   verification_results>>

\* Mutant of WorktreeAddCommand: -b whatever the branch check said.
WorktreeAddAlwaysNewBranch(found) == "git worktree add -b"

\* The command create_worktree runs after the branch check.
WorktreeAddCommand(found) ==
    IF found = "True" THEN "git worktree add" ELSE "git worktree add -b"

\* The rest of create_worktree: one git worktree add; a CalledProcessError
\* becomes False and main exits with status 1.  A successful add checks the
\* branch out into the new directory.
WorktreeAdd ==
    /\ pc = "worktree_add"
    /\ \E ok \in BOOLEAN :
        IF ok
        THEN /\ trace' = trace \o <<Cmd(WorktreeAddCommand(branch_found), ".", "ok"),
                                    Ev("return", "create_worktree", "True")>>
             /\ path_exists' = TRUE
             /\ branches' = branches \cup {Branch}
             /\ wt_files' \in SUBSET CheckoutFiles
             /\ pc' = "copy"
             /\ exit_code' = exit_code
        ELSE /\ trace' = trace \o <<Cmd(WorktreeAddCommand(branch_found), ".", "fail"),
                                    Ev("return", "create_worktree", "False")>>
             /\ Exit1
             /\ UNCHANGED <<path_exists, branches, wt_files>>
    /\ UNCHANGED <<interrupted, skip_install, skip_verify, template_vars,
                   branch_found, manifest, src_content, i, io, content, dest,
                   copied_files, variables, warnings, package_manager,
                   install_result, results, verification_results>>

\* copy_env_files, up to its loop.
CopyEnvFiles ==
    /\ pc = "copy"
    /\ trace' = Append(trace, Ev("stage", "Copier", ""))
    /\ copied_files' = <<>>
    /\ i' = 1
    /\ pc' = "copy_loop"
    /\ UNCHANGED <<exit_code, interrupted, skip_install, skip_verify,
                   template_vars, path_exists, branches, branch_found,
                   wt_files, manifest, src_content, io, content, dest,
                   variables, warnings, package_manager, install_result,
                   results, verification_results>>

\* Mutant of WrittenText: the text is written as read, the substitution
\* left for later.
WrittenTextAsRead(text, substitutions) == text

\* The text an iteration writes to the destination: the source text after
\* the substitution (the substitution is skipped for an empty dict, which
\* would change nothing).
WrittenText(text, substitutions) ==
    IF substitutions # <<>>
    THEN SubstituteTemplateVariables(text, substitutions)
    ELSE text

\* How one iteration of the loop can end:
\*   missing         source_file.exists() is false: a warning
\*   read_error      the read raises: caught by the iteration's except
\*   write_error     opening the destination raises: caught likewise
\*   validate_error  the destination is written, _validate_env_file cannot
\*                   read it back, catches that itself and returns {}
\*   ok              read, written and parsed
IterationOutcomes == {"missing", "read_error", "write_error", "validate_error", "ok"}

\* Whether the iteration got past the write.
Wrote(o) == o \in {"validate_error", "ok"}

\* Mutant of Appends: a validation that fails keeps the name off the list.
AppendsOnlyValidated(o) == o = "ok"

\* Whether the iteration appends the name to copied_files: it does whenever
\* the try block reaches the append, and _validate_env_file never raises.
Appends(o) == o \in {"validate_error", "ok"}

\* One iteration of the loop of copy_env_files over env_files[i].
CopyFile ==
    /\ pc = "copy_loop"
    /\ i <= Len(EnvFiles)
    /\ \E o \in IterationOutcomes :
        LET name == EnvFiles[i]
            text == WrittenText(src_content, template_vars)
        IN
        /\ io' = o
        /\ content' = IF o \in {"missing", "read_error"} THEN content ELSE text
        /\ dest' = IF Wrote(o) THEN (name :> text) @@ dest ELSE dest
        /\ trace' = IF Wrote(o) THEN Append(trace, Ev("write", name, "")) ELSE trace
        /\ variables' = CASE o = "ok" -> ValidateEnvFile(text).variables
                          [] o = "validate_error" -> EmptyDict
                          [] OTHER -> variables
        /\ warnings' = CASE o = "ok" -> ValidateEnvFile(text).warnings
                         [] o = "validate_error" -> 0
                         [] OTHER -> warnings
        /\ copied_files' = IF Appends(o) THEN Append(copied_files, name)
                           ELSE copied_files
    /\ i' = i + 1
    /\ UNCHANGED <<pc, exit_code, interrupted, skip_install, skip_verify,
                   template_vars, path_exists, branches, branch_found,
                   wt_files, manifest, src_content, package_manager,
                   install_result, results, verification_results>>

\* return copied_files; the loop's other locals end with the call.
CopyReturn ==
    /\ pc = "copy_loop"
    /\ i > Len(EnvFiles)
    /\ trace' = Append(trace, Ev("return", "copy_env_files", ""))
    /\ io' = "none"
    /\ content' = <<>>
    /\ variables' = EmptyDict
    /\ warnings' = 0
    /\ pc' = "install"
    /\ UNCHANGED <<exit_code, interrupted, skip_install, skip_verify,
                   template_vars, path_exists, branches, branch_found,
                   wt_files, manifest, src_content, i, dest, copied_files,
                   package_manager, install_result, results,
                   verification_results>>

\* if not args.skip_install: ... is false.
InstallSkipped ==
    /\ pc = "install"
    /\ skip_install
    /\ pc' = "verify"
    /\ UNCHANGED <<exit_code, interrupted, skip_install, skip_verify,
                   template_vars, path_exists, branches, branch_found,
                   wt_files, manifest, src_content, i, io, content, dest,
                   copied_files, variables, warnings, package_manager,
                   install_result, results, verification_results, trace>>

\* install_dependencies: no manager returns False without a command; else
\* one `<manager> install` in the worktree.  A CalledProcessError becomes
\* False; an OSError is caught by nothing before main's except Exception.
InstallDependencies ==
    /\ pc = "install"
    /\ ~skip_install
    /\ package_manager' = DetectPackageManager(wt_files)
    /\ IF package_manager' = "none"
       THEN /\ install_result' = "False"
            /\ trace' = trace \o <<Ev("stage", "Installer", ""),
                                   Ev("return", "install_dependencies", "False")>>
            /\ pc' = "verify"
            /\ UNCHANGED <<exit_code, wt_files>>
       ELSE \E o \in ToolOutcomes :
            LET cmd == Cmd(InstallCommand(package_manager'), "worktree", o) IN
            CASE o = "ok" ->
                   /\ install_result' = "True"
                   /\ trace' = trace \o <<Ev("stage", "Installer", ""), cmd,
                                          Ev("return", "install_dependencies", "True")>>
                   /\ wt_files' = wt_files \cup {"node_modules"}
                   /\ pc' = "verify"
                   /\ exit_code' = exit_code
              [] o = "fail" ->
                   /\ install_result' = "False"
                   /\ trace' = trace \o <<Ev("stage", "Installer", ""), cmd,
                                          Ev("return", "install_dependencies", "False")>>
                   /\ pc' = "verify"
                   /\ UNCHANGED <<exit_code, wt_files>>
              [] o = "oserror" ->
                   /\ install_result' = "raised"
                   /\ trace' = trace \o <<Ev("stage", "Installer", ""), cmd>>
                   /\ Exit1
                   /\ wt_files' = wt_files
    /\ UNCHANGED <<interrupted, skip_install, skip_verify, template_vars,
                   path_exists, branches, branch_found, manifest, src_content,
                   i, io, content, dest, copied_files, variables, warnings,
                   results, verification_results>>

\* if not args.skip_verify: ... is false; verification_results stays {}.
VerifySkipped ==
    /\ pc = "verify"
    /\ skip_verify
    /\ verification_results' = EmptyDict
    /\ pc' = "summary"
    /\ UNCHANGED <<exit_code, interrupted, skip_install, skip_verify,
                   template_vars, path_exists, branches, branch_found,
                   wt_files, manifest, src_content, i, io, content, dest,
                   copied_files, variables, warnings, package_manager,
                   install_result, results, trace>>

\* verify_setup: the two existence checks.
VerifyPresence ==
    /\ pc = "verify"
    /\ ~skip_verify
    /\ results' = ("package_json" :> ("package.json" \in wt_files))
                  @@ ("node_modules" :> ("node_modules" \in wt_files))
    /\ trace' = Append(trace, Ev("stage", "Verifier", ""))
    /\ pc' = "verify_ts"
    /\ UNCHANGED <<exit_code, interrupted, skip_install, skip_verify,
                   template_vars, path_exists, branches, branch_found,
                   wt_files, manifest, src_content, i, io, content, dest,
                   copied_files, variables, warnings, package_manager,
                   install_result, verification_results>>

\* Mutant of TypeCheckRuns: the type check runs without a tsconfig.json.
TypeCheckRunsAlways(files) == TRUE

\* if tsconfig.exists():
TypeCheckRuns(files) == "tsconfig.json" \in files

\* verify_setup: the type check, run iff tsconfig.json exists.  A
\* CalledProcessError records False; an OSError leaves verify_setup.
VerifyTypeCheck ==
    /\ pc = "verify_ts"
    /\ IF TypeCheckRuns(wt_files)
       THEN \E o \in ToolOutcomes :
            /\ trace' = Append(trace, Cmd("npx tsc --noEmit", "worktree", o))
            /\ IF o = "oserror"
               THEN Exit1 /\ results' = results
               ELSE /\ results' = ("typescript_check" :> (o = "ok")) @@ results
                    /\ pc' = "verify_lint"
                    /\ exit_code' = exit_code
       ELSE /\ pc' = "verify_lint"
            /\ UNCHANGED <<exit_code, results, trace>>
    /\ UNCHANGED <<interrupted, skip_install, skip_verify, template_vars,
                   path_exists, branches, branch_found, wt_files, manifest,
                   src_content, i, io, content, dest, copied_files, variables,
                   warnings, package_manager, install_result,
                   verification_results>>

\* return results, into main's verification_results
VerifyReturn(res) ==
    /\ results' = res
    /\ verification_results' = res
    /\ pc' = "summary"
    /\ exit_code' = exit_code

\* verify_setup: the lint check and the return.  package.json is opened
\* and parsed here, for the only time in the run.  json.JSONDecodeError and
\* CalledProcessError record False; any other exception leaves verify_setup.
VerifyLint ==
    /\ pc = "verify_lint"
    /\ IF "package.json" \notin wt_files
       THEN VerifyReturn(results) /\ UNCHANGED <<trace, manifest>>
       ELSE \E kind \in ManifestKinds :
            /\ manifest' = kind
            /\ CASE kind = "invalid_json" ->
                      /\ VerifyReturn(("lint_check" :> FALSE) @@ results)
                      /\ trace' = trace
                 [] kind \in {"undecodable", "not_object"} ->
                      /\ Exit1
                      /\ UNCHANGED <<results, verification_results, trace>>
                 [] kind = "no_lint" ->
                      VerifyReturn(results) /\ trace' = trace
                 [] kind = "lint" ->
                      \E o \in ToolOutcomes :
                      /\ trace' = Append(trace, Cmd("npm run lint", "worktree", o))
                      /\ IF o = "oserror"
                         THEN Exit1 /\ UNCHANGED <<results, verification_results>>
                         ELSE VerifyReturn(("lint_check" :> (o = "ok")) @@ results)
    /\ UNCHANGED <<interrupted, skip_install, skip_verify, template_vars,
                   path_exists, branches, branch_found, wt_files,
                   src_content, i, io, content, dest, copied_files, variables,
                   warnings, package_manager, install_result>>

\* print_setup_summary, and the end of main: exit status 0.
PrintSetupSummary ==
    /\ pc = "summary"
    /\ trace' = trace \o <<Ev("stage", "Reporter", ""),
                           Ev("return", "print_setup_summary", "")>>
    /\ pc' = "done"
    /\ exit_code' = 0
    /\ UNCHANGED <<interrupted, skip_install, skip_verify, template_vars,
                   path_exists, branches, branch_found, wt_files, manifest,
                   src_content, i, io, content, dest, copied_files, variables,
                   warnings, package_manager, install_result, results,
                   verification_results>>

\* Positions inside main's try block.
TryPcs == {"create", "branch_check", "worktree_add", "copy", "copy_loop",
           "install", "verify", "verify_ts", "verify_lint", "summary"}

\* except KeyboardInterrupt: sys.exit(1)
KeyboardInterrupt ==
    /\ pc \in TryPcs
    /\ interrupted' = TRUE
    /\ Exit1
    /\ UNCHANGED <<skip_install, skip_verify, template_vars, path_exists,
                   branches, branch_found, wt_files, manifest, src_content, i,
                   io, content, dest, copied_files, variables, warnings,
                   package_manager, install_result, results,
                   verification_results, trace>>

Next ==
    \/ Locate
    \/ CreateWorktree
    \/ BranchExists
    \/ WorktreeAdd
    \/ CopyEnvFiles
    \/ CopyFile
    \/ CopyReturn
    \/ InstallSkipped
    \/ InstallDependencies
    \/ VerifySkipped
    \/ VerifyPresence
    \/ VerifyTypeCheck
    \/ VerifyLint
    \/ PrintSetupSummary
    \/ KeyboardInterrupt

Spec == Init /\ [][Next]_vars

-----------------------------------------------------------------------------
(* _substitute_template_variables and _validate_env_file called on their   *)
(* own, on inputs drawn from bounded sets.                                 *)

SeqsUpTo(S, n) == UNION {[1..k -> S] : k \in 0..n}

RECURSIVE Flatten(_)
Flatten(ss) == IF ss = <<>> THEN <<>> ELSE Head(ss) \o Flatten(Tail(ss))

\* The variables of the run, at rest while a function is called alone.
RunAtRest ==
    /\ exit_code = -1
    /\ interrupted = FALSE
    /\ skip_install = FALSE
    /\ skip_verify = FALSE
    /\ path_exists = FALSE
    /\ branches = {}
    /\ branch_found = "unset"
    /\ wt_files = {}
    /\ manifest = "unread"
    /\ i = 0
    /\ dest = EmptyDict
    /\ copied_files = <<>>
    /\ package_manager = "unset"
    /\ install_result = "unset"
    /\ results = EmptyDict
    /\ verification_results = EmptyDict
    /\ trace = <<>>

\* Texts to substitute in: up to MaxFragments of these pieces, joined.
MaxFragments == 3

SubstFragments ==
    { <<"{", "{", " ", "A", " ", "}", "}">>,
      <<"{", "{", " ", "B", " ", "}", "}">>,
      <<"{", "{", " ">>,
      <<" ", "}", "}">>,
      <<"A">>,
      <<"x">> }

SubstTexts == {Flatten(fs) : fs \in SeqsUpTo(SubstFragments, MaxFragments)}

SubstKeys == { <<"A">>, <<"B">> }

SubstValues ==
    { <<>>, <<"y">>, <<"B">>,
      <<"{", "{", " ", "A", " ", "}", "}">>,
      <<"{", "{", " ", "B", " ", "}", "}">> }

\* The dicts over SubstKeys, in every insertion order.
SubstDicts ==
    {d \in SeqsUpTo([key : SubstKeys, value : SubstValues], Cardinality(SubstKeys)) :
        \A a, b \in 1..Len(d) : a # b => d[a].key # d[b].key}

InitSubstitute ==
    /\ pc = "call_substitute"
    /\ src_content \in SubstTexts
    /\ template_vars \in SubstDicts
    /\ content = <<>>
    /\ io = "none"
    /\ variables = EmptyDict
    /\ warnings = 0
    /\ RunAtRest

\* content = self._substitute_template_variables(src_content, template_vars)
CallSubstitute ==
    /\ pc = "call_substitute"
    /\ content' = SubstituteTemplateVariables(src_content, template_vars)
    /\ pc' = "substitute_returned"
    /\ UNCHANGED <<exit_code, interrupted, skip_install, skip_verify,
                   template_vars, path_exists, branches, branch_found,
                   wt_files, manifest, src_content, i, io, dest, copied_files,
                   variables, warnings, package_manager, install_result,
                   results, verification_results, trace>>

SpecSubstitute == InitSubstitute /\ [][CallSubstitute]_vars

\* Files to parse: up to MaxLines lines of up to MaxLineLen characters.
MaxLines == 2

MaxLineLen == 3

ParseChars == {"K", "=", "\"", "'", "#", " "}

ParseLines == SeqsUpTo(ParseChars, MaxLineLen)

ParseTexts ==
    {Flatten([k \in 1..Len(ls) |-> ls[k] \o <<"\n">>]) :
        ls \in SeqsUpTo(ParseLines, MaxLines)}

InitValidate ==
    /\ pc = "call_validate"
    /\ src_content \in ParseTexts
    /\ template_vars = <<>>
    /\ content = <<>>
    /\ io = "none"
    /\ variables = EmptyDict
    /\ warnings = 0
    /\ RunAtRest

\* variables = self._validate_env_file(path) on a file holding src_content:
\* a file that cannot be read gives a warning and the empty dict.
CallValidate ==
    /\ pc = "call_validate"
    /\ \E o \in {"ok", "validate_error"} :
        /\ io' = o
        /\ variables' = IF o = "ok" THEN ValidateEnvFile(src_content).variables
                        ELSE EmptyDict
        /\ warnings' = IF o = "ok" THEN ValidateEnvFile(src_content).warnings
                       ELSE 0
    /\ pc' = "validate_returned"
    /\ UNCHANGED <<exit_code, interrupted, skip_install, skip_verify,
                   template_vars, path_exists, branches, branch_found,
                   wt_files, manifest, src_content, i, content, dest,
                   copied_files, package_manager, install_result, results,
                   verification_results, trace>>

SpecValidate == InitValidate /\ [][CallValidate]_vars

-----------------------------------------------------------------------------
(* Reading the trace.                                                      *)

Has(e) == \E k \in 1..Len(trace) : trace[k] = e

\* Positions of the commands named in `names`.
CmdIdx(names) ==
    {k \in 1..Len(trace) : trace[k].kind = "cmd" /\ trace[k].name \in names}

StageIdx == {k \in 1..Len(trace) : trace[k].kind = "stage"}

WriteIdx == {k \in 1..Len(trace) : trace[k].kind = "write"}

ReturnIdx(fn) ==
    {k \in 1..Len(trace) : trace[k].kind = "return" /\ trace[k].name = fn}

RevParse == "git rev-parse --show-toplevel"
ShowRef == "git show-ref --verify --quiet"
AddCommands == {"git worktree add", "git worktree add -b"}
InstallCommands == {"npm install", "yarn install", "pnpm install"}
TypeCheckCommand == "npx tsc --noEmit"
LintCommand == "npm run lint"

\* create_worktree returned True.
Created == Has(Ev("return", "create_worktree", "True"))

\* The destination path was there before the run.
PreExisting == path_exists /\ ~Created

-----------------------------------------------------------------------------
(* The claims.                                                             *)

\* C1: every run that locates the repository, whose create_worktree returns
\* success and that is not interrupted reaches print_setup_summary and exits
\* with status 0, whatever happens in the later stages.
C1_RunCompletes ==
    (pc = "done" /\ Created /\ ~interrupted)
        => (exit_code = 0 /\ Has(Ev("return", "print_setup_summary", "")))

\* C2: when the destination path already exists, create_worktree returns
\* failure without running any command (the only command of the run is the
\* Locator's), nothing is created, copied, installed or verified, and main
\* exits with status 1.
C2_ExistingPathRefused ==
    PreExisting =>
        /\ pc \in {"locate", "create", "done"}
        /\ CmdIdx({RevParse}) = {k \in 1..Len(trace) : trace[k].kind = "cmd"}
        /\ WriteIdx = {}
        /\ \A k \in StageIdx : trace[k].name \in {"Locator", "Creator"}
        /\ wt_files = {} /\ manifest = "unread"
        /\ dest = EmptyDict /\ copied_files = <<>>
        /\ branch_found = "unset" /\ package_manager = "unset"
        /\ install_result = "unset" /\ results = EmptyDict
        /\ (pc = "done" => exit_code = 1)
        /\ (pc = "done" /\ ~interrupted /\ Has(Cmd(RevParse, ".", "ok"))
              => Has(Ev("return", "create_worktree", "False")))

\* C2 witness: a run on an existing path that ended with create_worktree
\* returning failure.
C2_Witness ==
    /\ PreExisting
    /\ pc = "done"
    /\ exit_code = 1
    /\ Has(Ev("return", "create_worktree", "False"))

\* C3: on a path that does not exist, create_worktree runs the branch check
\* once and then one worktree-add: on the existing branch when the check
\* succeeded, with -b otherwise.  It returns right after that command:
\* True iff the command succeeded, False when it failed.
C3_OneCheckOneAdd ==
    (ReturnIdx("create_worktree") # {} /\ ~PreExisting) =>
        /\ Cardinality(CmdIdx({ShowRef})) = 1
        /\ Cardinality(CmdIdx(AddCommands)) = 1
        /\ Cardinality(ReturnIdx("create_worktree")) = 1
        /\ \A r \in CmdIdx({ShowRef}) : \A a \in CmdIdx(AddCommands) :
            /\ a = r + 1
            /\ trace[r].status = "ok" <=> branch_found = "True"
            /\ trace[a].name = IF trace[r].status = "ok"
                               THEN "git worktree add"
                               ELSE "git worktree add -b"
            /\ trace[a].arg = "."
            /\ trace[a + 1] = Ev("return", "create_worktree",
                                 IF trace[a].status = "ok" THEN "True" ELSE "False")
            /\ trace[a].status = "ok" => (path_exists /\ Branch \in branches)
            /\ trace[a].status # "ok" => (~path_exists /\ pc = "done" /\ exit_code = 1)

\* C3 witness: create_worktree returned success after creating a new branch.
C3_Witness ==
    /\ Created
    /\ Has(Cmd("git worktree add -b", ".", "ok"))
    /\ Has(Cmd(ShowRef, ".", "fail"))

\* The names of env_files whose iteration is over.
Processed == IF i >= 1 THEN SubSeq(EnvFiles, 1, i - 1) ELSE <<>>

IsWritten(name) == name \in DOMAIN dest

\* What holds of a copy_env_files call whichever outcomes make the list:
\* a file is written at most once, only in its own iteration and only when
\* its source existed and was read; an iteration that fails leaves the loop
\* running, and the call returns only after the last of the six names.
CopyInvariant ==
    /\ \A k \in 1..Len(EnvFiles) :
         Cardinality({w \in WriteIdx : trace[w].name = EnvFiles[k]}) <= 1
    /\ DOMAIN dest \subseteq {EnvFiles[k] : k \in 1..Len(Processed)}
    /\ (pc = "copy_loop" /\ i > 1) =>
         /\ io \in IterationOutcomes
         /\ IsWritten(EnvFiles[i - 1]) =>
              io \notin {"missing", "read_error", "write_error"}
         /\ exit_code = -1
    /\ ReturnIdx("copy_env_files") # {} => i = Len(EnvFiles) + 1
    /\ \A a, b \in 1..Len(copied_files) :
         a < b => \E x, y \in 1..Len(EnvFiles) :
                    x < y /\ EnvFiles[x] = copied_files[a] /\ EnvFiles[y] = copied_files[b]

InList(name) == \E k \in 1..Len(copied_files) : copied_files[k] = name

\* C5 as stated: the list holds a name iff its source existed and its read,
\* write and validation all completed without error.
C5_ListOfValidatedFiles ==
    /\ CopyInvariant
    /\ (pc = "copy_loop" /\ i > 1) => (InList(EnvFiles[i - 1]) <=> io = "ok")

\* C5 as amended: the list holds, in the order of env_files and once each,
\* exactly the names whose source existed and whose read and write completed
\* without error, whether or not the validation could read the file back.
C5_ListOfWrittenFiles ==
    /\ CopyInvariant
    /\ (pc = "copy_loop" /\ i > 1) =>
         (InList(EnvFiles[i - 1]) <=> io \in {"ok", "validate_error"})
    /\ copied_files = SelectSeq(Processed, IsWritten)

\* C5 witness: the call is about to return; the last file was written, its
\* validation failed, and it is the one name listed (the five before it
\* were missing or failed).
C5_Witness ==
    /\ pc = "copy_loop"
    /\ i = Len(EnvFiles) + 1
    /\ io = "validate_error"
    /\ copied_files = <<".env.example">>

StageRank(name) ==
    CASE name = "Locator" -> 1
      [] name = "Creator" -> 2
      [] name = "Copier" -> 3
      [] name = "Installer" -> 4
      [] name = "Verifier" -> 5
      [] name = "Reporter" -> 6

\* C6: the stages are entered in the order Locator, Creator, Copier,
\* Installer, Verifier, Reporter, each at most once; every write of an env
\* file follows the successful return of create_worktree; the install
\* command follows the return of copy_env_files; the type-check and lint
\* commands follow the return of install_dependencies unless the
\* installation was skipped; nothing follows the summary; and what is
\* written to the destination is the text after the substitution, written
\* once.
C6_StageOrder ==
    /\ \A a, b \in StageIdx :
         a < b => StageRank(trace[a].name) < StageRank(trace[b].name)
    /\ \A w \in WriteIdx :
         /\ \E c \in ReturnIdx("create_worktree") : c < w /\ trace[c].arg = "True"
         /\ \E c \in StageIdx : c < w /\ trace[c].name = "Copier"
         /\ \A v \in WriteIdx : v # w => trace[v].name # trace[w].name
    /\ \A c \in CmdIdx(InstallCommands) :
         /\ \E r \in ReturnIdx("copy_env_files") : r < c
         /\ \A w \in WriteIdx : w < c
    /\ \A c \in CmdIdx({TypeCheckCommand, LintCommand}) :
         /\ \E r \in ReturnIdx("copy_env_files") : r < c
         /\ skip_install \/ \E r \in ReturnIdx("install_dependencies") : r < c
         /\ ~skip_install => \E k \in StageIdx : k < c /\ trace[k].name = "Installer"
    /\ \A k \in StageIdx :
         trace[k].name = "Reporter" =>
            /\ k = Len(trace) - 1
            /\ trace[Len(trace)] = Ev("return", "print_setup_summary", "")
    /\ \A name \in DOMAIN dest :
         dest[name] = SubstituteTemplateVariables(src_content, template_vars)

\* C6 witness: a complete run that substituted and wrote an env file, then
\* installed, then ran the type check and the lint, then printed the summary.
C6_Witness ==
    /\ exit_code = 0
    /\ template_vars # <<>>
    /\ \E name \in DOMAIN dest : dest[name] # src_content
    /\ CmdIdx(InstallCommands) # {}
    /\ CmdIdx({TypeCheckCommand}) # {}
    /\ CmdIdx({LintCommand}) # {}

\* C7: at most one install command per run; none with --skip-install; none
\* when no manager is detected, and then install_dependencies returns
\* failure; otherwise the one command is the detected manager's install,
\* run in the worktree, and the result is success iff it exited with 0.
C7_InstallOnce ==
    /\ Cardinality(CmdIdx(InstallCommands)) <= 1
    /\ skip_install =>
         /\ CmdIdx(InstallCommands) = {}
         /\ package_manager = "unset" /\ install_result = "unset"
    /\ package_manager = "none" =>
         /\ CmdIdx(InstallCommands) = {}
         /\ install_result = "False"
         /\ Has(Ev("return", "install_dependencies", "False"))
    /\ package_manager \in {"npm", "yarn", "pnpm"} =>
         \E c \in CmdIdx(InstallCommands) :
            /\ trace[c].name = [npm |-> "npm install", yarn |-> "yarn install",
                                pnpm |-> "pnpm install"][package_manager]
            /\ trace[c].arg = "worktree"
            /\ install_result = "True" <=> trace[c].status = "ok"
            /\ trace[c].status = "fail" =>
                 /\ install_result = "False"
                 /\ Has(Ev("return", "install_dependencies", "False"))
    /\ CmdIdx(InstallCommands) # {} => package_manager \in {"npm", "yarn", "pnpm"}

\* C7 witness: pnpm was detected, `pnpm install` succeeded and
\* install_dependencies returned success.
C7_Witness ==
    /\ package_manager = "pnpm"
    /\ install_result = "True"
    /\ Has(Cmd("pnpm install", "worktree", "ok"))

\* The part of C8 that does not concern the lint entry: with --skip-verify
\* the mapping is empty and no check command ran; else the two existence
\* entries are there, and the type-check entry is there iff tsconfig.json
\* exists and then tells whether the command exited with 0.
VerifyMapping(m) ==
    IF skip_verify
    THEN m = EmptyDict /\ CmdIdx({TypeCheckCommand, LintCommand}) = {}
    ELSE /\ {"package_json", "node_modules"} \subseteq DOMAIN m
         /\ m["package_json"] = ("package.json" \in wt_files)
         /\ m["node_modules"] = ("node_modules" \in wt_files)
         /\ "typescript_check" \in DOMAIN m <=> "tsconfig.json" \in wt_files
         /\ "typescript_check" \in DOMAIN m =>
              \E c \in CmdIdx({TypeCheckCommand}) :
                 m["typescript_check"] = (trace[c].status = "ok")
         /\ ("package.json" \in wt_files /\ manifest = "lint") =>
              /\ "lint_check" \in DOMAIN m
              /\ \E c \in CmdIdx({LintCommand}) :
                   m["lint_check"] = (trace[c].status = "ok")

\* C8 as stated: the mapping handed to the summary is as VerifyMapping says
\* and has a lint entry only if package.json exists and declares a lint
\* script.
C8_LintOnlyIfDeclared ==
    pc = "summary" =>
        /\ VerifyMapping(verification_results)
        /\ "lint_check" \in DOMAIN verification_results =>
             ("package.json" \in wt_files /\ manifest = "lint")

\* C8 as amended: the mapping has a lint entry only if package.json exists
\* and either declares a lint script or is not valid JSON, in which case
\* the entry is false.
C8_LintOnlyIfDeclaredOrInvalid ==
    pc = "summary" =>
        /\ VerifyMapping(verification_results)
        /\ "lint_check" \in DOMAIN verification_results =>
             /\ "package.json" \in wt_files
             /\ manifest \in {"lint", "invalid_json"}
             /\ manifest = "invalid_json" => ~verification_results["lint_check"]
        /\ (~skip_verify /\ "package.json" \in wt_files /\ manifest = "invalid_json")
             => "lint_check" \in DOMAIN verification_results

\* C8 witness: the type check failed, and the lint check was still made
\* and recorded, as false for a package.json that is not valid JSON.
C8_Witness ==
    /\ pc = "summary"
    /\ manifest = "invalid_json"
    /\ DOMAIN verification_results =
         {"package_json", "node_modules", "typescript_check", "lint_check"}
    /\ ~verification_results["typescript_check"]
    /\ ~verification_results["lint_check"]

DetectionFiles == {"package-lock.json", "yarn.lock", "pnpm-lock.yaml", "package.json"}

\* C9: the detected manager is npm for package-lock.json, else yarn for
\* yarn.lock, else pnpm for pnpm-lock.yaml, else npm for a package.json
\* alone, else none; none iff none of the four files exists.
C9_DetectionPriority ==
    package_manager # "unset" =>
        LET has(f) == f \in wt_files IN
        /\ has("package-lock.json") => package_manager = "npm"
        /\ (~has("package-lock.json") /\ has("yarn.lock")) => package_manager = "yarn"
        /\ (~has("package-lock.json") /\ ~has("yarn.lock") /\ has("pnpm-lock.yaml"))
             => package_manager = "pnpm"
        /\ (wt_files \cap DetectionFiles = {"package.json"}) => package_manager = "npm"
        /\ package_manager = "none" <=> wt_files \cap DetectionFiles = {}

\* C9 witness: yarn.lock wins over pnpm-lock.yaml and package.json.
C9_Witness ==
    /\ package_manager = "yarn"
    /\ wt_files \cap DetectionFiles = {"yarn.lock", "pnpm-lock.yaml", "package.json"}

\* Substitution in one pass over the original text: at each position the
\* placeholder of a supplied key, if one starts there, gives way to the
\* key's value, and the scan goes on after the placeholder.
RECURSIVE SinglePass(_, _)
SinglePass(text, substitutions) ==
    IF text = <<>> THEN <<>>
    ELSE LET starts(k) ==
                 LET p == Placeholder(substitutions[k].key) IN
                 Len(text) >= Len(p) /\ SubSeq(text, 1, Len(p)) = p
             hits == {k \in 1..Len(substitutions) : starts(k)}
         IN  IF hits = {}
             THEN <<text[1]>> \o SinglePass(Tail(text), substitutions)
             ELSE LET k == CHOOSE k \in hits : TRUE
                      p == Placeholder(substitutions[k].key)
                  IN  substitutions[k].value
                        \o SinglePass(SubSeq(text, Len(p) + 1, Len(text)), substitutions)

\* C4: the result of _substitute_template_variables is the original text
\* with every placeholder of a supplied key that occurs in the original
\* replaced by the key's value, and nothing a value brings in replaced again.
C4_SinglePass ==
    pc = "substitute_returned" => content = SinglePass(src_content, template_vars)

\* The value as C10 reads it: trimmed, then without one layer of quotes when
\* it starts and ends with the same quote.
Unquoted(value) ==
    LET v == Strip(value) IN
    IF Len(v) >= 2 /\ v[1] = v[Len(v)] /\ v[1] \in {"\"", "'"}
    THEN SubSeq(v, 2, Len(v) - 1)
    ELSE v

RECURSIVE ParsedByRules(_, _)
ParsedByRules(acc, lines) ==
    IF lines = <<>> THEN acc
    ELSE LET line == Strip(Head(lines))
             n == IndexOf(line, "=")
             next ==
                 IF line = <<>> \/ line[1] = "#" THEN acc
                 ELSE IF n = 0 THEN [acc EXCEPT !.warnings = acc.warnings + 1]
                 ELSE [acc EXCEPT !.variables =
                          (Strip(SubSeq(line, 1, n - 1))
                              :> Unquoted(SubSeq(line, n + 1, Len(line))))
                          @@ acc.variables]
         IN  ParsedByRules(next, Tail(lines))

\* C10: _validate_env_file returns the mapping of the parser rules (blank
\* and # lines skipped, a line split on its first =, key and value trimmed,
\* one matching layer of quotes taken off the value, later keys overwriting
\* earlier ones) and warns once per other line.
C10_ParserRules ==
    (pc = "validate_returned" /\ io = "ok") =>
        LET r == ParsedByRules([variables |-> EmptyDict, warnings |-> 0],
                               SplitLines(src_content))
        IN  variables = r.variables /\ warnings = r.warnings

====
